---- MODULE Spec2Model ----
(***************************************************************************)
(* A model of lib/number.c: the arbitrary-precision decimal fixed-point    *)
(* numbers of bc on top of GMP.  A number is a reference-counted cell      *)
(* (bc_struct) holding a big integer n_value and a decimal scale n_scale;  *)
(* its value is n_value * 10^(-n_scale).  Every library routine is an      *)
(* operator from heap to heap, written statement by statement after the C  *)
(* source; an action of the state machine is one call of a routine.        *)
(***************************************************************************)
EXTENDS Integers, Sequences, FiniteSets, TLC

(***************************************************************************)
(* Bounds of the model.                                                    *)
(***************************************************************************)
\* the first operand of the two-operand routines has |n_value| <= MaxVal,
\* the second |n_value| <= MaxDivisor ...
MaxVal == 40
MaxDivisor == 12
\* ... those of the calls that start from a shared or used result variable
\* have |n_value| <= MaxSmall ...
MaxSmall == 2
\* ... and the operand of the one-operand routines has |n_value| <= MaxBig
MaxBig == 1000
\* every operand has n_scale <= MaxScale
MaxScale == 2
\* the scale argument of a call ranges over 0..MaxScaleArg
MaxScaleArg == 2
\* number of bc_struct cells bc_num_malloc can hand out
NCells == 16
\* SpecPow: largest integer part of a base, of an exponent and of a modulus,
\* and the most fraction digits of an operand or asked of a result
MaxBase == 2
MaxExp == 3
MaxMod == 3
MaxPowScale == 1
\* SpecOut: largest magnitude of the big integer written, largest of the
\* consecutive output bases
MaxOut == 200
MaxOutBase == 17
\* SpecShare: largest magnitude of a big integer, most fraction digits of
\* an operand or asked of a result
MaxShare == 2
MaxShareScale == 1
\* SpecLoop: the iterations the loop of bc_raisemod is followed for
MaxIter == 4

(***************************************************************************)
(* Program constants.                                                      *)
(***************************************************************************)
NULL == 0
LONG_MAX == 2147483647

\* F applied to the value of e, which is computed once
Then(e, F(_)) == CHOOSE r \in {F(x) : x \in {e}} : TRUE

MAX(a, b) == IF a > b THEN a ELSE b
MIN(a, b) == IF a > b THEN b ELSE a

(***************************************************************************)
(* The GMP primitives the library calls, on TLA+ integers.                 *)
(***************************************************************************)
mpz_abs(n) == IF n < 0 THEN -n ELSE n

mpz_sgn(n) == IF n < 0 THEN -1 ELSE IF n > 0 THEN 1 ELSE 0

\* mpz_tdiv_q: the quotient rounded toward zero
mpz_tdiv_q(n, d) == mpz_sgn(n) * mpz_sgn(d) * (mpz_abs(n) \div mpz_abs(d))

RECURSIVE mpz_pow_ui(_, _)
mpz_pow_ui(b, e) == IF e = 0 THEN 1 ELSE b * mpz_pow_ui(b, e - 1)

mpz_cmp(a, b) == IF a < b THEN -1 ELSE IF a > b THEN 1 ELSE 0

mpz_cmpabs(a, b) == mpz_cmp(mpz_abs(a), mpz_abs(b))

\* mpz_sqrt: the truncated integer part of the square root, n >= 0
RECURSIVE mpz_sqrt(_)
mpz_sqrt(n) ==
  IF n < 2 THEN n
  ELSE LET s == 2 * mpz_sqrt(n \div 4)
       IN  IF (s + 1) * (s + 1) <= n THEN s + 1 ELSE s

mpz_fits_slong_p(n) == n >= -LONG_MAX - 1 /\ n <= LONG_MAX

(***************************************************************************)
(* State.                                                                  *)
(***************************************************************************)
VARIABLES
  cell,          \* the bc_struct cells: cell[p] for the pointer p
  nalloc,        \* number of cells bc_num_malloc has handed out
  bc_Free_list,  \* head of the list of released cells (NULL if empty)
  slot,          \* the bc_num variables: globals, the caller's, locals
  rv,            \* return value of the last call
  text,          \* the string returned by the last bc_num2str
  warned,        \* messages passed to rt_warn / rt_error by the last call
  call,          \* the last call: routine and arguments
  pre,           \* cell, free list and slots as they were before the call
  pc,            \* where a call made step by step stands
  iter           \* iterations of its loop so far

vars == <<cell, nalloc, bc_Free_list, slot, rv, text, warned, call, pre,
          pc, iter>>

Cells == 1..NCells

\* _zero_, _one_, _two_
Globals == {"zero", "one", "two"}
\* the variables of the calling program
Caller == {"a", "b", "r", "q"}
\* the local bc_num variables of the routines
Locals == {"dm_temp", "dm_quotient", "rm_power", "rm_exponent", "rm_parity",
           "rm_temp", "on_int_part", "on_frac_part", "on_base", "on_cur_dig",
           "on_t_num", "on_max_o_digit"}
Slots == Globals \cup Caller \cup Locals

bc_struct(scale, refs, next, value, init) ==
  [n_scale |-> scale, n_refs |-> refs, n_next |-> next, n_value |-> value,
   n_init |-> init]

\* storage bc_num_malloc has not handed out yet
Unused == bc_struct(0, 0, NULL, 0, FALSE)

\* the heap as one value, threaded through the routines
Heap == [cell |-> cell, nalloc |-> nalloc, free |-> bc_Free_list,
         slot |-> slot, rv |-> rv, warned |-> warned, oom |-> FALSE,
         out |-> <<>>]

(***************************************************************************)
(* Allocation and sharing.                                                 *)
(***************************************************************************)
\* bc_new_num: h.rv is the new number
bc_new_num(h, scale) ==
  LET fromList == h.free # NULL
      temp == IF fromList THEN h.free
              ELSE IF h.nalloc < NCells THEN h.nalloc + 1 ELSE NCells
      h1 == IF fromList THEN [h EXCEPT !.free = h.cell[temp].n_next]
            ELSE IF h.nalloc < NCells THEN [h EXCEPT !.nalloc = temp]
            ELSE [h EXCEPT !.oom = TRUE]
  IN  [h1 EXCEPT !.cell[temp] = [@ EXCEPT !.n_scale = scale, !.n_refs = 1,
                                          !.n_value = 0, !.n_init = TRUE],
                 !.rv = temp]

\* bc_free_num (bc_num *num)
bc_free_num(h, num) ==
  LET p == h.slot[num] IN
  IF p = NULL THEN h
  ELSE IF h.cell[p].n_refs - 1 = 0
       THEN [h EXCEPT !.cell[p] = [@ EXCEPT !.n_refs = 0, !.n_init = FALSE,
                                            !.n_next = h.free],
                      !.free = p,
                      !.slot[num] = NULL]
       ELSE [h EXCEPT !.cell[p].n_refs = @ - 1, !.slot[num] = NULL]

\* bc_copy_num: h.rv is the copy
bc_copy_num(h, num) == [h EXCEPT !.cell[num].n_refs = @ + 1, !.rv = num]

\* bc_init_num (bc_num *num)
bc_init_num(h, num) ==
  LET h1 == bc_copy_num(h, h.slot["zero"]) IN [h1 EXCEPT !.slot[num] = h1.rv]

\* bc_init_numbers, from storage nothing has been allocated in
bc_init_numbers ==
  LET h0 == [cell |-> [p \in Cells |-> Unused], nalloc |-> 0, free |-> NULL,
             slot |-> [s \in Slots |-> NULL], rv |-> 0, warned |-> <<>>,
             oom |-> FALSE, out |-> <<>>]
      h1 == bc_new_num(h0, 0)
      h2 == [h1 EXCEPT !.slot["zero"] = h1.rv]
      h3 == bc_new_num(h2, 0)
      h4 == [h3 EXCEPT !.slot["one"] = h3.rv, !.cell[h3.rv].n_value = 1]
      h5 == bc_new_num(h4, 0)
  IN  [h5 EXCEPT !.slot["two"] = h5.rv, !.cell[h5.rv].n_value = 2]

(***************************************************************************)
(* Comparison.                                                             *)
(***************************************************************************)
\* _bc_do_compare on the cells n1, n2 of the heap h
bc_do_compare(h, n1, n2, use_sign) ==
  LET c1 == h.cell[n1]
      c2 == h.cell[n2]
      result ==
        IF c1.n_scale > c2.n_scale
        THEN LET copy == c2.n_value * mpz_pow_ui(10, c1.n_scale - c2.n_scale)
             IN  IF use_sign THEN mpz_cmp(c1.n_value, copy)
                 ELSE mpz_cmpabs(c1.n_value, copy)
        ELSE IF c1.n_scale < c2.n_scale
        THEN LET copy == c1.n_value * mpz_pow_ui(10, c2.n_scale - c1.n_scale)
             IN  IF use_sign THEN mpz_cmp(copy, c2.n_value)
                 ELSE mpz_cmpabs(copy, c2.n_value)
        ELSE IF use_sign THEN mpz_cmp(c1.n_value, c2.n_value)
             ELSE mpz_cmpabs(c1.n_value, c2.n_value)
  IN  IF result < 0 THEN -1 ELSE IF result > 0 THEN 1 ELSE 0

\* mutant: the magnitudes are compared
bc_compare_m(h, n1, n2) == bc_do_compare(h, n1, n2, FALSE)

bc_compare(h, n1, n2) == bc_do_compare(h, n1, n2, TRUE)

\* mutant: the sign test the wrong way round
bc_is_neg_m(h, num) == mpz_sgn(h.cell[num].n_value) = 1

bc_is_neg(h, num) == mpz_sgn(h.cell[num].n_value) = -1

bc_is_zero(h, num) == mpz_sgn(h.cell[num].n_value) = 0

(***************************************************************************)
(* Add and subtract.                                                       *)
(***************************************************************************)
\* bc_sub (n1, n2, bc_num *result, scale_min)
bc_sub(h, n1, n2, result, scale_min) ==
  LET s1 == h.cell[n1].n_scale
      s2 == h.cell[n2].n_scale
      diff_scale == MAX(s1, s2)
      v1 == h.cell[n1].n_value
      v2 == h.cell[n2].n_value
      d == IF s1 > s2 THEN v1 - v2 * mpz_pow_ui(10, s1 - s2)
           ELSE IF s1 < s2 THEN v1 * mpz_pow_ui(10, s2 - s1) - v2
           ELSE v1 - v2
      stepped == IF diff_scale < scale_min
                 THEN d * mpz_pow_ui(10, scale_min - diff_scale)
                 ELSE d
  IN
  Then(bc_new_num(h, MAX(diff_scale, scale_min)), LAMBDA h1 :
  Then([h1 EXCEPT !.cell[h1.rv].n_value = stepped], LAMBDA h2 :
  Then(bc_free_num(h2, result), LAMBDA h3 :
  [h3 EXCEPT !.slot[result] = h1.rv])))

\* bc_add (n1, n2, bc_num *result, scale_min)
bc_add(h, n1, n2, result, scale_min) ==
  LET s1 == h.cell[n1].n_scale
      s2 == h.cell[n2].n_scale
      sum_scale == MAX(s1, s2)
      v1 == h.cell[n1].n_value
      v2 == h.cell[n2].n_value
      d == IF s1 > s2 THEN v1 + v2 * mpz_pow_ui(10, s1 - s2)
           ELSE IF s1 < s2 THEN v1 * mpz_pow_ui(10, s2 - s1) + v2
           ELSE v1 + v2
      stepped == IF sum_scale < scale_min
                 THEN d * mpz_pow_ui(10, scale_min - sum_scale)
                 ELSE d
  IN
  Then(bc_new_num(h, MAX(sum_scale, scale_min)), LAMBDA h1 :
  Then([h1 EXCEPT !.cell[h1.rv].n_value = stepped], LAMBDA h2 :
  Then(bc_free_num(h2, result), LAMBDA h3 :
  [h3 EXCEPT !.slot[result] = h1.rv])))

(***************************************************************************)
(* Multiply, divide, divmod, modulo.                                       *)
(***************************************************************************)
\* mutant: the scale of the product is not capped by the full scale
multiply_prod_scale_m(s1, s2, scale) == MAX(scale, MAX(s1, s2))

\* prod_scale in bc_multiply, from the scales of n1 and n2
multiply_prod_scale(s1, s2, scale) == MIN(s1 + s2, MAX(scale, MAX(s1, s2)))

\* bc_multiply (n1, n2, bc_num *prod, scale)
bc_multiply(h, n1, n2, prod, scale) ==
  LET s1 == h.cell[n1].n_scale
      s2 == h.cell[n2].n_scale
      full_scale == s1 + s2
      prod_scale == multiply_prod_scale(s1, s2, scale)
      p == h.cell[n1].n_value * h.cell[n2].n_value
      stepped == IF full_scale > prod_scale
                 THEN mpz_tdiv_q(p, mpz_pow_ui(10, full_scale - prod_scale))
                 ELSE p
  IN
  Then(bc_new_num(h, prod_scale), LAMBDA h1 :
  Then([h1 EXCEPT !.cell[h1.rv].n_value = stepped], LAMBDA h2 :
  Then(bc_free_num(h2, prod), LAMBDA h3 :
  [h3 EXCEPT !.slot[prod] = h1.rv])))

\* mutant: the scales of dividend and divisor are taken for each other
divide_step_amt_m(s1, s2, scale) == s1 + scale - s2

\* step_amt in bc_divide, from the scales of n1 and n2
divide_step_amt(s1, s2, scale) == s2 + scale - s1

\* bc_divide (n1, n2, bc_num *quot, scale): h.rv is the status
bc_divide(h, n1, n2, quot, scale) ==
  IF bc_is_zero(h, n2) THEN [h EXCEPT !.rv = -1]
  ELSE
    LET step_amt == divide_step_amt(h.cell[n1].n_scale, h.cell[n2].n_scale,
                                    scale)
        v1 == h.cell[n1].n_value
        v2 == h.cell[n2].n_value
        q == IF step_amt # 0
             THEN IF step_amt > 0
                  THEN mpz_tdiv_q(v1 * mpz_pow_ui(10, step_amt), v2)
                  ELSE mpz_tdiv_q(mpz_tdiv_q(v1, mpz_pow_ui(10, -step_amt)), v2)
             ELSE mpz_tdiv_q(v1, v2)
    IN
    Then(bc_new_num(h, scale), LAMBDA h1 :
    Then([h1 EXCEPT !.cell[h1.rv].n_value = q], LAMBDA h2 :
    Then(bc_free_num(h2, quot), LAMBDA h3 :
    [h3 EXCEPT !.slot[quot] = h1.rv, !.rv = 0])))

\* mutant: the scale of the quotient is left out of the remainder's
divmod_rscale_m(s1, s2, scale) == MAX(s1, s2)

\* rscale in bc_divmod, from the scales of num1 and num2
divmod_rscale(s1, s2, scale) == MAX(s1, s2 + scale)

\* bc_divmod (num1, num2, bc_num *quot, bc_num *rem, scale); quot = "none"
\* is the NULL pointer
bc_divmod(h, num1, num2, quot, rem, scale) ==
  IF bc_is_zero(h, num2) THEN [h EXCEPT !.rv = -1]
  ELSE
    LET rscale == divmod_rscale(h.cell[num1].n_scale, h.cell[num2].n_scale,
                                scale)
    IN
    Then([h EXCEPT !.slot["dm_quotient"] = NULL], LAMBDA h0 :
    Then(bc_init_num(h0, "dm_temp"), LAMBDA h1 :
    Then(bc_divide(h1, num1, num2, "dm_temp", scale), LAMBDA h2 :
    Then(IF quot # "none"
         THEN Then(bc_copy_num(h2, h2.slot["dm_temp"]), LAMBDA c :
                   [c EXCEPT !.slot["dm_quotient"] = c.rv])
         ELSE h2, LAMBDA h3 :
    Then(bc_multiply(h3, h3.slot["dm_temp"], num2, "dm_temp", rscale),
         LAMBDA h4 :
    Then(bc_sub(h4, num1, h4.slot["dm_temp"], rem, rscale), LAMBDA h5 :
    Then(bc_free_num(h5, "dm_temp"), LAMBDA h6 :
    Then(IF quot # "none"
         THEN Then(bc_free_num(h6, quot), LAMBDA f :
                   [f EXCEPT !.slot[quot] = f.slot["dm_quotient"]])
         ELSE h6, LAMBDA h7 :
    [h7 EXCEPT !.rv = 0]))))))))

\* bc_modulo (num1, num2, bc_num *result, scale)
bc_modulo(h, num1, num2, result, scale) ==
  bc_divmod(h, num1, num2, "none", result, scale)

(***************************************************************************)
(* Conversions to machine integers; the host's diagnostics.                *)
(***************************************************************************)
\* rt_warn / rt_error: the host records the message and returns
rt_warn(h, mesg) == [h EXCEPT !.warned = Append(@, mesg)]

rt_error(h, mesg) == [h EXCEPT !.warned = Append(@, mesg)]

\* bc_num2long: the integer part, 0 if it does not fit
bc_num2long(h, num) ==
  LET c == h.cell[num]
      copy == IF c.n_scale > 0
              THEN mpz_tdiv_q(c.n_value, mpz_pow_ui(10, c.n_scale))
              ELSE c.n_value
  IN  IF ~mpz_fits_slong_p(copy) THEN 0
      ELSE IF copy = -LONG_MAX - 1 THEN 0
      ELSE copy

(***************************************************************************)
(* Raise and raisemod.                                                     *)
(***************************************************************************)
\* rscale in bc_raise, from the scale of num1 and the exponent
raise_rscale(n_scale, neg, exponent, scale) ==
  IF neg THEN scale ELSE MIN(n_scale * exponent, MAX(scale, n_scale))

\* bc_raise (num1, num2, bc_num *result, scale)
bc_raise(h, num1, num2, result, scale) ==
  LET long == bc_num2long(h, num2) IN
  Then(IF h.cell[num2].n_scale # 0
       THEN rt_warn(h, "non-zero scale in exponent")
       ELSE h, LAMBDA h1 :
  Then(IF long = 0 /\ bc_do_compare(h1, num2, h1.slot["one"], FALSE) > 0
       THEN rt_error(h1, "exponent too large in raise")
       ELSE h1, LAMBDA h2 :
  IF long = 0
  THEN Then(bc_free_num(h2, result), LAMBDA f :
       Then(bc_copy_num(f, f.slot["one"]), LAMBDA c :
       [c EXCEPT !.slot[result] = c.rv, !.rv = h.rv]))
  ELSE
    LET neg == long < 0
        exponent == IF neg THEN -long ELSE long
        s1 == h2.cell[num1].n_scale
        rscale == raise_rscale(s1, neg, exponent, scale)
        diffscale == s1 * exponent - rscale
        p == mpz_pow_ui(h2.cell[num1].n_value, exponent)
        stepped == IF diffscale # 0
                   THEN IF diffscale < 0
                        THEN p * mpz_pow_ui(10, -diffscale)
                        ELSE mpz_tdiv_q(p, mpz_pow_ui(10, diffscale))
                   ELSE p
    IN
    Then(bc_new_num(h2, rscale), LAMBDA h3 :
    Then([h3 EXCEPT !.cell[h3.rv].n_value = stepped], LAMBDA h4 :
    IF neg
    THEN Then(bc_divide(h4, h4.slot["one"], h3.rv, result, rscale), LAMBDA d :
              [d EXCEPT !.rv = h.rv])
    ELSE Then(bc_free_num(h4, result), LAMBDA f :
              [f EXCEPT !.slot[result] = h3.rv, !.rv = h.rv])))))

\* mutant: the exponent is divided by _one_ and so never gets smaller
raisemod_halve_m(h) ==
  bc_divmod(h, h.slot["rm_exponent"], h.slot["one"],
            "rm_exponent", "rm_parity", 0)

\* bc_raisemod: the exponent is halved, its low bit is left in parity
raisemod_halve(h) ==
  bc_divmod(h, h.slot["rm_exponent"], h.slot["two"],
            "rm_exponent", "rm_parity", 0)

\* bc_raisemod: the body of the while loop
raisemod_body(h, mod, scale, rscale) ==
  Then(raisemod_halve(h), LAMBDA h1 :
  Then(IF ~bc_is_zero(h1, h1.slot["rm_parity"])
       THEN Then(bc_multiply(h1, h1.slot["rm_temp"], h1.slot["rm_power"],
                             "rm_temp", rscale), LAMBDA m :
                 bc_modulo(m, m.slot["rm_temp"], mod, "rm_temp", scale))
       ELSE h1, LAMBDA h2 :
  Then(bc_multiply(h2, h2.slot["rm_power"], h2.slot["rm_power"],
                   "rm_power", rscale), LAMBDA h3 :
  bc_modulo(h3, h3.slot["rm_power"], mod, "rm_power", scale))))

\* the while loop of bc_raisemod
RECURSIVE raisemod_loop(_, _, _, _)
raisemod_loop(h, mod, scale, rscale) ==
  IF bc_is_zero(h, h.slot["rm_exponent"]) THEN h
  ELSE raisemod_loop(raisemod_body(h, mod, scale, rscale), mod, scale, rscale)

\* mutant: the warning is given and the exponent is left as it is
raisemod_truncate_m(h) ==
  IF h.cell[h.slot["rm_exponent"]].n_scale # 0
  THEN rt_warn(h, "non-zero scale in exponent")
  ELSE h

\* bc_raisemod: the check of the exponent for scale digits
raisemod_truncate(h) ==
  IF h.cell[h.slot["rm_exponent"]].n_scale # 0
  THEN Then(rt_warn(h, "non-zero scale in exponent"), LAMBDA w :
            bc_divide(w, w.slot["rm_exponent"], w.slot["one"],
                      "rm_exponent", 0))
  ELSE h

\* bc_raisemod: the initial values and the checks for scale digits
raisemod_setup(h, base, expo, mod) ==
  Then(bc_copy_num(h, base), LAMBDA c1 :
  Then(bc_copy_num([c1 EXCEPT !.slot["rm_power"] = c1.rv], expo),
       LAMBDA c2 :
  Then([c2 EXCEPT !.slot["rm_exponent"] = c2.rv], LAMBDA h2 :
  Then(bc_copy_num(h2, h2.slot["one"]), LAMBDA c3 :
  Then(bc_init_num([c3 EXCEPT !.slot["rm_temp"] = c3.rv], "rm_parity"),
       LAMBDA h4 :
  Then(IF h4.cell[base].n_scale # 0
       THEN rt_warn(h4, "non-zero scale in base")
       ELSE h4, LAMBDA h5 :
  Then(raisemod_truncate(h5), LAMBDA h6 :
  IF h6.cell[mod].n_scale # 0
  THEN rt_warn(h6, "non-zero scale in modulus")
  ELSE h6)))))))

\* bc_raisemod: the value is assigned
raisemod_finish(h, result) ==
  Then(bc_free_num(h, "rm_power"), LAMBDA h9 :
  Then(bc_free_num(h9, "rm_exponent"), LAMBDA h10 :
  Then(bc_free_num(h10, result), LAMBDA h11 :
  [h11 EXCEPT !.slot[result] = h11.slot["rm_temp"], !.rv = 0])))

\* bc_raisemod (base, expo, mod, bc_num *result, scale): h.rv is the status
bc_raisemod(h, base, expo, mod, result, scale) ==
  IF bc_is_zero(h, mod) THEN [h EXCEPT !.rv = -1]
  ELSE IF bc_is_neg(h, expo) THEN [h EXCEPT !.rv = -1]
  ELSE
    LET rscale == MAX(scale, h.cell[base].n_scale) IN
    Then(raisemod_setup(h, base, expo, mod), LAMBDA h7 :
    Then(raisemod_loop(h7, mod, scale, rscale), LAMBDA h8 :
    raisemod_finish(h8, result)))

(***************************************************************************)
(* Square root.                                                            *)
(***************************************************************************)
\* mutant: the added digits are not doubled
sqrt_step_amt_m(n_scale, rscale) == n_scale + (rscale - n_scale)

\* step_amt in bc_sqrt, from the scale of the number and rscale
sqrt_step_amt(n_scale, rscale) == n_scale + 2 * (rscale - n_scale)

\* bc_sqrt (bc_num *num, scale): h.rv is 1, or 0 for an error
bc_sqrt(h, num, scale) ==
  LET n == h.slot[num]
      cmp_zero == bc_compare(h, n, h.slot["zero"])
  IN  IF cmp_zero < 0 THEN [h EXCEPT !.rv = 0]
      ELSE IF cmp_zero = 0
      THEN Then(bc_free_num(h, num), LAMBDA f :
           Then(bc_copy_num(f, f.slot["zero"]), LAMBDA c :
           [c EXCEPT !.slot[num] = c.rv, !.rv = 1]))
      ELSE IF bc_compare(h, n, h.slot["one"]) = 0
      THEN Then(bc_free_num(h, num), LAMBDA f :
           Then(bc_copy_num(f, f.slot["one"]), LAMBDA c :
           [c EXCEPT !.slot[num] = c.rv, !.rv = 1]))
      ELSE
        LET rscale == MAX(scale, h.cell[n].n_scale)
            step_amt == sqrt_step_amt(h.cell[n].n_scale, rscale)
            v == h.cell[n].n_value
            root == IF step_amt # 0
                    THEN IF step_amt > 0
                         THEN mpz_sqrt(v * mpz_pow_ui(10, step_amt))
                         ELSE mpz_sqrt(mpz_tdiv_q(v, mpz_pow_ui(10, -step_amt)))
                    ELSE mpz_sqrt(v)
        IN
        Then(bc_new_num(h, rscale), LAMBDA h1 :
        Then([h1 EXCEPT !.cell[h1.rv].n_value = root], LAMBDA h2 :
        Then(bc_free_num(h2, num), LAMBDA h3 :
        [h3 EXCEPT !.slot[num] = h1.rv, !.rv = 1])))

(***************************************************************************)
(* Base-10 text.  A string is a sequence of one-character strings; NUL is  *)
(* what lies past its end.                                                 *)
(***************************************************************************)
NUL == ""

DigitChars == <<"0", "1", "2", "3", "4", "5", "6", "7", "8", "9">>

isdigit(c) == \E i \in 1..10 : DigitChars[i] = c

\* the value of a digit character
DigitVal(c) == (CHOOSE i \in 1..10 : DigitChars[i] = c) - 1

\* *ptr
Deref(str, ptr) == IF ptr <= Len(str) THEN str[ptr] ELSE NUL

RECURSIVE DecDigits(_)
DecDigits(n) ==
  IF n < 10 THEN <<DigitChars[n + 1]>>
  ELSE Append(DecDigits(n \div 10), DigitChars[(n % 10) + 1])

\* gmp_asprintf (&nptr, "%Zd", n)
gmp_asprintf_Zd(n) == IF n < 0 THEN <<"-">> \o DecDigits(-n) ELSE DecDigits(n)

RECURSIVE DecValue(_)
DecValue(ds) ==
  IF ds = <<>> THEN 0
  ELSE 10 * DecValue(SubSeq(ds, 1, Len(ds) - 1)) + DigitVal(ds[Len(ds)])

\* the digits at the front of a string
RECURSIVE LeadingDigits(_)
LeadingDigits(str) ==
  IF str # <<>> /\ isdigit(Head(str))
  THEN <<Head(str)>> \o LeadingDigits(Tail(str))
  ELSE <<>>

\* gmp_sscanf (nptr, "%Zd", v): v is left as it was when nothing is read
gmp_sscanf_Zd(nptr, old) ==
  LET minus == Deref(nptr, 1) = "-"
      ds == LeadingDigits(IF minus THEN Tail(nptr) ELSE nptr)
  IN  IF ds = <<>> THEN old
      ELSE IF minus THEN -DecValue(ds) ELSE DecValue(ds)

\* mutant: a number less than 1 is not padded with zeros
bc_num2str_m(h, num) ==
  LET c == h.cell[num]
      signch == IF mpz_sgn(c.n_value) = -1 THEN 1 ELSE 0
      nptr == gmp_asprintf_Zd(c.n_value)
      n_len == Len(nptr) - signch
      iptr == SubSeq(nptr, signch + 1, Len(nptr))
      sign == IF signch = 1 THEN <<"-">> ELSE <<>>
  IN  IF n_len >= c.n_scale
      THEN sign \o SubSeq(iptr, 1, n_len - c.n_scale)
                \o (IF c.n_scale > 0
                    THEN <<".">> \o SubSeq(iptr, n_len - c.n_scale + 1, n_len)
                    ELSE <<>>)
      ELSE sign \o <<".">> \o iptr

\* bc_num2str (num): the string
bc_num2str(h, num) ==
  LET c == h.cell[num]
      signch == IF bc_is_neg(h, num) THEN 1 ELSE 0
      nptr == gmp_asprintf_Zd(c.n_value)
      n_len == Len(nptr) - signch
      iptr == SubSeq(nptr, signch + 1, Len(nptr))
      sign == IF signch = 1 THEN <<"-">> ELSE <<>>
  IN  IF n_len >= c.n_scale
      THEN sign \o SubSeq(iptr, 1, n_len - c.n_scale)
                \o (IF c.n_scale > 0
                    THEN <<".">> \o SubSeq(iptr, n_len - c.n_scale + 1, n_len)
                    ELSE <<>>)
      ELSE sign \o <<".">> \o [i \in 1..(c.n_scale - n_len) |-> "0"] \o iptr

\* while (*ptr == '0') ptr++
RECURSIVE SkipZeros(_, _)
SkipZeros(str, ptr) ==
  IF Deref(str, ptr) = "0" THEN SkipZeros(str, ptr + 1) ELSE ptr

\* while (isdigit(*ptr)) ptr++
RECURSIVE SkipDigits(_, _)
SkipDigits(str, ptr) ==
  IF isdigit(Deref(str, ptr)) THEN SkipDigits(str, ptr + 1) ELSE ptr

\* mutant: the decimal point is not skipped
str2num_copy_m(str, strscale) ==
  LET q1 == IF Deref(str, 1) = "+" THEN 2 ELSE 1
      minus == Deref(str, q1) = "-"
      q2 == IF minus THEN q1 + 1 ELSE q1
      q3 == SkipZeros(str, q2)
      q4 == SkipDigits(str, q3)
      q6 == MIN(SkipDigits(str, q4), q4 + strscale)
  IN  (IF minus THEN <<"-">> ELSE <<>>)
        \o SubSeq(str, q3, q4 - 1) \o SubSeq(str, q4, q6 - 1)

\* the copy bc_str2num makes of the relevant portion of str: the sign, the
\* integer digits and strscale fraction digits
str2num_copy(str, strscale) ==
  LET q1 == IF Deref(str, 1) = "+" THEN 2 ELSE 1
      minus == Deref(str, q1) = "-"
      q2 == IF minus THEN q1 + 1 ELSE q1
      q3 == SkipZeros(str, q2)
      q4 == SkipDigits(str, q3)
      q5 == IF Deref(str, q4) = "." THEN q4 + 1 ELSE q4
      q6 == MIN(SkipDigits(str, q5), q5 + strscale)
  IN  (IF minus THEN <<"-">> ELSE <<>>)
        \o SubSeq(str, q3, q4 - 1) \o SubSeq(str, q5, q6 - 1)

\* bc_str2num (bc_num *num, str, scale)
bc_str2num(h, num, str, scale) ==
  LET \* check for a valid number and count digits
      p1 == IF Deref(str, 1) = "+" \/ Deref(str, 1) = "-" THEN 2 ELSE 1
      p2 == SkipZeros(str, p1)
      p3 == SkipDigits(str, p2)
      digits == p3 - p2
      p4 == IF Deref(str, p3) = "." THEN p3 + 1 ELSE p3
      p5 == SkipDigits(str, p4)
      strscale == p5 - p4
  IN
  Then(bc_free_num(h, num), LAMBDA h1 :
  IF Deref(str, p5) # NUL \/ digits + strscale = 0
  THEN Then(bc_copy_num(h1, h1.slot["zero"]), LAMBDA c :
            [c EXCEPT !.slot[num] = c.rv, !.rv = h.rv])
  ELSE
    Then(bc_new_num(h1, MIN(strscale, scale)), LAMBDA h2 :
    LET nptr == str2num_copy(str, MIN(strscale, scale))
        v == gmp_sscanf_Zd(nptr, h2.cell[h2.rv].n_value)
    IN  [h2 EXCEPT !.cell[h2.rv].n_value = v, !.slot[num] = h2.rv,
                   !.rv = h.rv]))

(***************************************************************************)
(* bc_int2num, bc_num_length, bc_neg.                                      *)
(***************************************************************************)
\* bc_int2num (bc_num *num, val)
bc_int2num(h, num, val) ==
  Then(bc_free_num(h, num), LAMBDA h1 :
  Then(bc_new_num(h1, 0), LAMBDA h2 :
  [h2 EXCEPT !.cell[h2.rv].n_value = val, !.slot[num] = h2.rv, !.rv = h.rv]))

\* bc_num_length (num): the number of digits of the big integer
bc_num_length(h, num) ==
  LET nptr == gmp_asprintf_Zd(h.cell[num].n_value)
  IN  IF Deref(nptr, 1) = "-" THEN Len(nptr) - 1 ELSE Len(nptr)

\* mutant: the number is negated in place whoever else holds it
bc_neg_m(h, num) == [h EXCEPT !.cell[h.slot[num]].n_value = -@]

\* bc_neg (bc_num *num)
bc_neg(h, num) ==
  LET p == h.slot[num] IN
  IF h.cell[p].n_refs = 1
  THEN [h EXCEPT !.cell[p].n_value = -@]
  ELSE Then(bc_new_num(h, h.cell[p].n_scale), LAMBDA h1 :
       Then([h1 EXCEPT !.cell[h1.rv].n_value = -h1.cell[p].n_value],
            LAMBDA h2 :
       Then(bc_free_num(h2, num), LAMBDA h3 :
       [h3 EXCEPT !.slot[num] = h1.rv, !.rv = h.rv])))

(***************************************************************************)
(* Output in any base.                                                     *)
(***************************************************************************)
\* (*out_char) (c): the host appends the character to its output
out_char(h, c) == [h EXCEPT !.out = Append(@, c)]

ref_str == <<"0", "1", "2", "3", "4", "5", "6", "7", "8", "9",
             "A", "B", "C", "D", "E", "F">>

\* the characters of a string written one after the other
RECURSIVE out_string(_, _)
out_string(h, str) ==
  IF str = <<>> THEN h ELSE out_string(out_char(h, Head(str)), Tail(str))

\* mutant: the space is written whatever SPACE is
bc_out_long_m(h, val, size, space) ==
  LET digits == gmp_asprintf_Zd(val)
      len == Len(digits)
  IN  Then(out_char(h, " "), LAMBDA h1 :
      Then(out_string(h1, [i \in 1..(IF size > len THEN size - len ELSE 0)
                           |-> "0"]), LAMBDA h2 :
      out_string(h2, digits)))

\* bc_out_long (val, size, space, out_char)
bc_out_long(h, val, size, space) ==
  LET digits == gmp_asprintf_Zd(val)
      len == Len(digits)
  IN  Then(IF space # 0 THEN out_char(h, " ") ELSE h, LAMBDA h1 :
      Then(out_string(h1, [i \in 1..(IF size > len THEN size - len ELSE 0)
                           |-> "0"]), LAMBDA h2 :
      out_string(h2, digits)))

\* bc_out_num: the digits of the integer part, pushed on the stack
RECURSIVE out_num_push(_, _)
out_num_push(h, digits) ==
  IF bc_is_zero(h, h.slot["on_int_part"]) THEN [h |-> h, digits |-> digits]
  ELSE
    Then(bc_modulo(h, h.slot["on_int_part"], h.slot["on_base"],
                   "on_cur_dig", 0), LAMBDA h1 :
    Then(bc_divide(h1, h1.slot["on_int_part"], h1.slot["on_base"],
                   "on_int_part", 0), LAMBDA h2 :
    out_num_push([h2 EXCEPT !.rv = h.rv],
                 <<bc_num2long(h1, h1.slot["on_cur_dig"])>> \o digits)))

\* bc_out_num: the digits on the stack, printed from its top
RECURSIVE out_num_pop(_, _, _, _)
out_num_pop(h, digits, o_base, ix) ==
  IF digits = <<>> THEN h
  ELSE out_num_pop(IF o_base <= 16
                   THEN out_char(h, ref_str[Head(digits) + 1])
                   ELSE bc_out_long(h, Head(digits), ix, 1),
                   Tail(digits), o_base, ix)

\* mutant: the loop stops one power of the base early
out_num_more_m(h, n_scale) ==
  bc_num_length(h, h.slot["on_t_num"]) < n_scale

\* bc_out_num: the test of the loop over the digits of the fraction
out_num_more(h, n_scale) ==
  bc_num_length(h, h.slot["on_t_num"]) <= n_scale

\* bc_out_num: the loop over the digits of the fraction
RECURSIVE out_num_frac(_, _, _, _, _)
out_num_frac(h, num, o_base, ix, pre_space) ==
  IF ~out_num_more(h, h.cell[num].n_scale) THEN h
  ELSE
    Then(bc_multiply(h, h.slot["on_frac_part"], h.slot["on_base"],
                     "on_frac_part", h.cell[num].n_scale), LAMBDA h1 :
    LET fdigit == bc_num2long(h1, h1.slot["on_frac_part"]) IN
    Then(bc_int2num(h1, "on_int_part", fdigit), LAMBDA h2 :
    Then(bc_sub(h2, h2.slot["on_frac_part"], h2.slot["on_int_part"],
                "on_frac_part", 0), LAMBDA h3 :
    Then(IF o_base <= 16
         THEN out_char(h3, ref_str[fdigit + 1])
         ELSE bc_out_long(h3, fdigit, ix, pre_space), LAMBDA h4 :
    Then(bc_multiply(h4, h4.slot["on_t_num"], h4.slot["on_base"],
                     "on_t_num", 0), LAMBDA h5 :
    out_num_frac(h5, num, o_base, ix, 1))))))

\* bc_out_num (num, o_base, out_char, leading_zero): h.out is the output
bc_out_num(h, num, o_base, leading_zero) ==
  Then(IF bc_is_neg(h, num) THEN out_char(h, "-") ELSE h, LAMBDA s0 :
  IF bc_is_zero(s0, num) THEN out_char(s0, "0")
  ELSE IF o_base = 10
  THEN LET nptr == bc_num2str(s0, num)
       IN  out_string(s0, IF Deref(nptr, 1) = "-" THEN Tail(nptr) ELSE nptr)
  ELSE
    Then(IF leading_zero /\ bc_is_zero(s0, num) THEN out_char(s0, "0")
         ELSE s0, LAMBDA s1 :
    Then(bc_init_num(s1, "on_int_part"), LAMBDA s2 :
    Then(bc_divide(s2, num, s2.slot["one"], "on_int_part", 0), LAMBDA s3 :
    Then(bc_init_num(s3, "on_frac_part"), LAMBDA s4 :
    Then(bc_init_num(s4, "on_cur_dig"), LAMBDA s5 :
    Then(bc_init_num(s5, "on_base"), LAMBDA s6 :
    Then(bc_sub(s6, num, s6.slot["on_int_part"], "on_frac_part", 0),
         LAMBDA s7 :
    Then([s7 EXCEPT
            !.cell[s7.slot["on_int_part"]].n_value = mpz_abs(@),
            !.cell[s7.slot["on_frac_part"]].n_value = mpz_abs(@)],
         LAMBDA s8 :
    Then(bc_int2num(s8, "on_base", o_base), LAMBDA s9 :
    Then(bc_init_num(s9, "on_max_o_digit"), LAMBDA s10 :
    Then(bc_int2num(s10, "on_max_o_digit", o_base - 1), LAMBDA s11 :
    LET ix == Len(bc_num2str(s11, s11.slot["on_max_o_digit"])) IN
    Then(out_num_push(s11, <<>>), LAMBDA pushed :
    Then(out_num_pop(pushed.h, pushed.digits, o_base, ix), LAMBDA s12 :
    Then(IF s12.cell[num].n_scale > 0
         THEN Then(out_char(s12, "."), LAMBDA f0 :
              Then(bc_copy_num(f0, f0.slot["one"]), LAMBDA f1 :
              Then(out_num_frac([f1 EXCEPT !.slot["on_t_num"] = f1.rv],
                                num, o_base, ix, 0), LAMBDA f2 :
              bc_free_num(f2, "on_t_num"))))
         ELSE s12, LAMBDA s13 :
    Then(bc_free_num(s13, "on_int_part"), LAMBDA s14 :
    Then(bc_free_num(s14, "on_frac_part"), LAMBDA s15 :
    Then(bc_free_num(s15, "on_base"), LAMBDA s16 :
    Then(bc_free_num(s16, "on_cur_dig"), LAMBDA s17 :
    Then(bc_free_num(s17, "on_max_o_digit"), LAMBDA s18 :
    [s18 EXCEPT !.rv = h.rv]))))))))))))))))))))

(***************************************************************************)
(* The calling program.  Its variables a and b hold the operands, r and q  *)
(* receive results.  Init is a state bc_init_numbers and a few calls of    *)
(* bc_str2num, bc_copy_num, bc_init_num and bc_free_num lead to.           *)
(***************************************************************************)
Scales == 0..MaxScale
ScaleArgs == 0..MaxScaleArg

Numbers(maxval) == [n_value : (-maxval)..maxval, n_scale : Scales]

\* the state bc_str2num (&num, str, scale) leaves for a str that reads n
StoreNumber(h, num, n) ==
  LET h1 == bc_new_num(bc_free_num(h, num), n.n_scale)
  IN  [h1 EXCEPT !.cell[h1.rv].n_value = n.n_value, !.slot[num] = h1.rv]

\* what the result variable r holds before the call
Priors == {"null", "zero", "shared", "own"}

SetPrior(h, prior) ==
  IF prior = "zero" THEN bc_init_num(h, "r")
  ELSE IF prior = "shared"
  THEN LET c == bc_copy_num(h, h.slot["a"]) IN [c EXCEPT !.slot["r"] = c.rv]
  ELSE IF prior = "own"
  THEN StoreNumber(h, "r", [n_value |-> 7, n_scale |-> 1])
  ELSE h

\* released: q has held a number and released it, so the free list has a cell
Setup(na, nb, prior, released) ==
  LET h0 == bc_init_numbers
      h1 == StoreNumber(h0, "a", na)
      h2 == StoreNumber(h1, "b", nb)
      h3 == SetPrior(h2, prior)
  IN  IF released
      THEN bc_free_num(StoreNumber(h3, "q", [n_value |-> 5, n_scale |-> 1]), "q")
      ELSE h3

Snapshot(h) ==
  [cell |-> h.cell, nalloc |-> h.nalloc, free |-> h.free, slot |-> h.slot]

NoCall == [op |-> "none", x |-> "none", y |-> "none", z |-> "none",
           o |-> "none", q |-> "none", scale |-> 0, base |-> 0, val |-> 0]

Start(h) ==
  /\ cell = h.cell
  /\ nalloc = h.nalloc
  /\ bc_Free_list = h.free
  /\ slot = h.slot
  /\ rv = 0
  /\ text = <<>>
  /\ warned = <<>>
  /\ call = NoCall
  /\ pre = Snapshot(h)
  /\ pc = "idle"
  /\ iter = 0

\* The call returns: the locals of the routines go out of scope.
Return(h, c) ==
  /\ ~h.oom
  /\ cell' = h.cell
  /\ nalloc' = h.nalloc
  /\ bc_Free_list' = h.free
  /\ slot' = [s \in Slots |-> IF s \in Locals THEN NULL ELSE h.slot[s]]
  /\ rv' = h.rv
  /\ warned' = h.warned
  /\ call' = c
  /\ pre' = Snapshot(Heap)
  /\ UNCHANGED <<pc, iter>>

\* A call of the routine F with the arguments c, from the heap as it is.
Call(F(_), c) ==
  \E e \in {[Heap EXCEPT !.warned = <<>>]} : \E h \in {F(e)} : Return(h, c)

Idle == call.op = "none"

Add(x, y, o, s) ==
  /\ Idle
  /\ Call(LAMBDA e : bc_add(e, e.slot[x], e.slot[y], o, s),
          [NoCall EXCEPT !.op = "add", !.x = x, !.y = y, !.o = o, !.scale = s])
  /\ UNCHANGED text

Sub(x, y, o, s) ==
  /\ Idle
  /\ Call(LAMBDA e : bc_sub(e, e.slot[x], e.slot[y], o, s),
          [NoCall EXCEPT !.op = "sub", !.x = x, !.y = y, !.o = o, !.scale = s])
  /\ UNCHANGED text

Compare(x, y) ==
  /\ Idle
  /\ Call(LAMBDA e : [e EXCEPT !.rv = bc_compare(e, e.slot[x], e.slot[y])],
          [NoCall EXCEPT !.op = "compare", !.x = x, !.y = y])
  /\ UNCHANGED text

Multiply(x, y, o, s) ==
  /\ Idle
  /\ Call(LAMBDA e : bc_multiply(e, e.slot[x], e.slot[y], o, s),
          [NoCall EXCEPT !.op = "multiply", !.x = x, !.y = y, !.o = o,
                         !.scale = s])
  /\ UNCHANGED text

Divide(x, y, o, s) ==
  /\ Idle
  /\ Call(LAMBDA e : bc_divide(e, e.slot[x], e.slot[y], o, s),
          [NoCall EXCEPT !.op = "divide", !.x = x, !.y = y, !.o = o,
                         !.scale = s])
  /\ UNCHANGED text

Divmod(x, y, q, o, s) ==
  /\ Idle
  /\ Call(LAMBDA e : bc_divmod(e, e.slot[x], e.slot[y], q, o, s),
          [NoCall EXCEPT !.op = "divmod", !.x = x, !.y = y, !.q = q, !.o = o,
                         !.scale = s])
  /\ UNCHANGED text

Modulo(x, y, o, s) ==
  /\ Idle
  /\ Call(LAMBDA e : bc_modulo(e, e.slot[x], e.slot[y], o, s),
          [NoCall EXCEPT !.op = "modulo", !.x = x, !.y = y, !.o = o,
                         !.scale = s])
  /\ UNCHANGED text

Raise(x, y, o, s) ==
  /\ Idle
  /\ Call(LAMBDA e : bc_raise(e, e.slot[x], e.slot[y], o, s),
          [NoCall EXCEPT !.op = "raise", !.x = x, !.y = y, !.o = o,
                         !.scale = s])
  /\ UNCHANGED text

Raisemod(x, y, z, o, s) ==
  /\ Idle
  /\ Call(LAMBDA e : bc_raisemod(e, e.slot[x], e.slot[y], e.slot[z], o, s),
          [NoCall EXCEPT !.op = "raisemod", !.x = x, !.y = y, !.z = z,
                         !.o = o, !.scale = s])
  /\ UNCHANGED text

Sqrt(o, s) ==
  /\ Idle
  /\ Call(LAMBDA e : bc_sqrt(e, o, s),
          [NoCall EXCEPT !.op = "sqrt", !.x = o, !.o = o, !.scale = s])
  /\ UNCHANGED text

Num2str(x) ==
  /\ Idle
  /\ Call(LAMBDA e : e, [NoCall EXCEPT !.op = "num2str", !.x = x])
  /\ text' = bc_num2str(Heap, slot[x])

\* the program reads back the string it has just written
Str2num(o, s) ==
  /\ call.op = "num2str"
  /\ Call(LAMBDA e : bc_str2num(e, o, text, s),
          [NoCall EXCEPT !.op = "str2num", !.x = call.x, !.o = o, !.scale = s])
  /\ UNCHANGED text

OutNum(x, o_base, leading_zero) ==
  /\ Idle
  /\ \E e \in {[Heap EXCEPT !.warned = <<>>]} :
       \E h \in {bc_out_num(e, e.slot[x], o_base, leading_zero)} :
         /\ Return(h, [NoCall EXCEPT !.op = "out_num", !.x = x,
                                     !.base = o_base])
         /\ text' = h.out

\* bc_neg (&o); o holds a number
Neg(o) ==
  /\ Idle
  /\ slot[o] # NULL
  /\ Call(LAMBDA e : bc_neg(e, o), [NoCall EXCEPT !.op = "neg", !.o = o])
  /\ UNCHANGED text

Int2num(o, v) ==
  /\ Idle
  /\ Call(LAMBDA e : bc_int2num(e, o, v),
          [NoCall EXCEPT !.op = "int2num", !.o = o, !.val = v])
  /\ UNCHANGED text

\* bc_str2num (&o, str, s) of a string the program has at hand
Parse(o, str, s) ==
  /\ Idle
  /\ Call(LAMBDA e : bc_str2num(e, o, str, s),
          [NoCall EXCEPT !.op = "str2num", !.o = o, !.scale = s])
  /\ UNCHANGED text

\* o = bc_new_num (1, s); o holds nothing
NewNum(o, s) ==
  /\ Idle
  /\ slot[o] = NULL
  /\ Call(LAMBDA e : Then(bc_new_num(e, s), LAMBDA n :
                          [n EXCEPT !.slot[o] = n.rv, !.rv = e.rv]),
          [NoCall EXCEPT !.op = "new_num", !.o = o, !.scale = s])
  /\ UNCHANGED text

\* o = bc_copy_num (x); o holds nothing
CopyNum(x, o) ==
  /\ Idle
  /\ slot[o] = NULL
  /\ Call(LAMBDA e : Then(bc_copy_num(e, e.slot[x]), LAMBDA c :
                          [c EXCEPT !.slot[o] = c.rv, !.rv = e.rv]),
          [NoCall EXCEPT !.op = "copy_num", !.x = x, !.o = o])
  /\ UNCHANGED text

\* bc_init_num (&o); o holds nothing
InitNum(o) ==
  /\ Idle
  /\ slot[o] = NULL
  /\ Call(LAMBDA e : bc_init_num(e, o),
          [NoCall EXCEPT !.op = "init_num", !.o = o])
  /\ UNCHANGED text

FreeNum(o) ==
  /\ Idle
  /\ Call(LAMBDA e : bc_free_num(e, o),
          [NoCall EXCEPT !.op = "free_num", !.o = o])
  /\ UNCHANGED text

\* after a call, the program releases all its variables
ReleaseAll ==
  /\ call.op \notin {"none", "release"}
  /\ Call(LAMBDA e : bc_free_num(bc_free_num(bc_free_num(bc_free_num(
                       e, "a"), "b"), "r"), "q"),
          [NoCall EXCEPT !.op = "release"])
  /\ UNCHANGED text

\* the heap a step of a call leaves, its locals still in scope
Install(h) ==
  /\ ~h.oom
  /\ cell' = h.cell
  /\ nalloc' = h.nalloc
  /\ bc_Free_list' = h.free
  /\ slot' = h.slot
  /\ rv' = h.rv
  /\ warned' = h.warned

\* bc_raisemod up to its loop: the checks and the initial values
RaisemodEnter(x, y, z, o, s) ==
  /\ Idle
  /\ pc = "idle"
  /\ \E e \in {[Heap EXCEPT !.warned = <<>>]} :
       IF bc_is_zero(e, e.slot[z]) \/ bc_is_neg(e, e.slot[y])
       THEN Install([e EXCEPT !.rv = -1]) /\ pc' = "done"
       ELSE /\ \E h \in {raisemod_setup(e, e.slot[x], e.slot[y], e.slot[z])} :
                 Install(h)
            /\ pc' = "loop"
  /\ call' = [NoCall EXCEPT !.op = "raisemod", !.x = x, !.y = y, !.z = z,
                            !.o = o, !.scale = s]
  /\ pre' = Snapshot(Heap)
  /\ iter' = 0
  /\ UNCHANGED text

\* one iteration of the loop of bc_raisemod
RaisemodIterate ==
  /\ pc = "loop"
  /\ iter < MaxIter
  /\ ~bc_is_zero(Heap, slot["rm_exponent"])
  /\ \E h \in {raisemod_body(Heap, slot[call.z], call.scale,
                             MAX(call.scale, cell[slot[call.x]].n_scale))} :
       Install(h)
  /\ iter' = iter + 1
  /\ UNCHANGED <<pc, call, pre, text>>

\* the loop of bc_raisemod is left, the value assigned, 0 returned
RaisemodLeave ==
  /\ pc = "loop"
  /\ bc_is_zero(Heap, slot["rm_exponent"])
  /\ \E h \in {raisemod_finish(Heap, call.o)} :
       Install([h EXCEPT !.slot = [v \in Slots |-> IF v \in Locals THEN NULL
                                                  ELSE h.slot[v]]])
  /\ pc' = "done"
  /\ UNCHANGED <<iter, call, pre, text>>

(***************************************************************************)
(* Spec: one call of a routine that can fail, or of bc_raise, from every   *)
(* prior content of the result variable and of the free list.              *)
(***************************************************************************)
Init ==
  \E na, nb \in Numbers(MaxSmall), prior \in Priors, released \in BOOLEAN :
    Start(Setup(na, nb, prior, released))

Next ==
  \/ \E o \in {"r", "a"}, s \in ScaleArgs : Divide("a", "b", o, s)
  \/ \E q \in {"q", "r"}, s \in ScaleArgs : Divmod("a", "b", q, "r", s)
  \/ \E o \in {"r", "a"}, s \in ScaleArgs : Modulo("a", "b", o, s)
  \/ \E z \in {"a", "b"}, s \in ScaleArgs : Raisemod("a", "b", z, "r", s)
  \/ \E s \in ScaleArgs : Sqrt("a", s)
  \/ \E o \in {"r", "a"}, s \in ScaleArgs : Raise("a", "b", o, s)

Spec == Init /\ [][Next]_vars

(***************************************************************************)
(* SpecArith: one call of a two-operand routine on a and b, the result     *)
(* variables being fresh.                                                  *)
(***************************************************************************)
InitArith ==
  \E na \in Numbers(MaxVal), nb \in Numbers(MaxDivisor) :
    Start(Setup(na, nb, "null", FALSE))

NextArith ==
  \/ \E s \in ScaleArgs : Sub("a", "b", "r", s)
  \/ Compare("a", "b")
  \/ \E s \in ScaleArgs : Multiply("a", "b", "r", s)
  \/ \E s \in ScaleArgs : Divide("a", "b", "r", s)
  \/ \E s \in ScaleArgs : Divmod("a", "b", "q", "r", s)

SpecArith == InitArith /\ [][NextArith]_vars

(***************************************************************************)
(* SpecUnary: the one-operand routines on a: the square root in place, and *)
(* the base-10 text written and read back into r.                          *)
(***************************************************************************)
InitUnary ==
  \E na \in Numbers(MaxBig) : Start(StoreNumber(bc_init_numbers, "a", na))

NextUnary ==
  \/ \E s \in ScaleArgs : Sqrt("a", s)
  \/ Num2str("a")
  \/ \E s \in ScaleArgs : Str2num("r", s)

SpecUnary == InitUnary /\ [][NextUnary]_vars

(***************************************************************************)
(* What the claims are stated in.                                          *)
(***************************************************************************)
\* the number the variable v held before the call, and the one it holds now
Before(v) == pre.cell[pre.slot[v]]
Now(v) == cell[slot[v]]

\* the heap the call started from
HeapBefore == [cell |-> pre.cell, nalloc |-> pre.nalloc, free |-> pre.free,
               slot |-> pre.slot, rv |-> 0, warned |-> <<>>, oom |-> FALSE,
               out |-> <<>>]

Abs(n) == IF n < 0 THEN -n ELSE n
Sgn(n) == IF n < 0 THEN -1 ELSE IF n > 0 THEN 1 ELSE 0

\* q is the rational N / D rounded toward zero
IsTruncated(q, N, D) ==
  /\ Abs(q) * Abs(D) <= Abs(N)
  /\ Abs(N) < (Abs(q) + 1) * Abs(D)
  /\ q # 0 => Sgn(q) = Sgn(N) * Sgn(D)

\* A * 10^e <= C * 10^f and A * 10^e > C * 10^f, the common power of ten
\* cancelled
LeqScaled(A, e, C, f) == A * 10^(e - MIN(e, f)) <= C * 10^(f - MIN(e, f))
GtScaled(A, e, C, f) == A * 10^(e - MIN(e, f)) > C * 10^(f - MIN(e, f))

(***************************************************************************)
(* C1: a call that fails changes nothing.                                  *)
(***************************************************************************)
FailingCall ==
  \/ /\ call.op \in {"divide", "divmod", "modulo"}
     /\ Before(call.y).n_value = 0
  \/ /\ call.op = "raisemod"
     /\ Before(call.z).n_value = 0 \/ Before(call.y).n_value < 0
  \/ /\ call.op = "sqrt"
     /\ Before(call.x).n_value < 0

\* C1: bc_divide, bc_divmod and bc_modulo with a zero divisor, bc_raisemod
\* with a zero modulus or a negative exponent and bc_sqrt of a negative
\* number return their failure status (-1, 0 for bc_sqrt) and leave every
\* cell (value, scale, reference count, link), every variable and the free
\* list as they were, whatever the result variables held.
C1_FailingCallChangesNothing ==
  FailingCall =>
    /\ rv = IF call.op = "sqrt" THEN 0 ELSE -1
    /\ cell = pre.cell
    /\ bc_Free_list = pre.free
    /\ slot = pre.slot

\* bc_raisemod refused a negative exponent (the modulus is not zero) while
\* r held a number and the free list a cell
C1_Witness ==
  /\ call.op = "raisemod"
  /\ Before(call.y).n_value < 0
  /\ Before(call.z).n_value # 0
  /\ pre.slot["r"] # NULL
  /\ pre.free # NULL
  /\ rv = -1

(***************************************************************************)
(* C2: bc_divide.                                                          *)
(***************************************************************************)
\* C2: for n2 # 0, bc_divide returns 0 and installs a number of scale
\* `scale` whose big integer is B1 * 10^(n2.scale + scale - n1.scale) / B2
\* rounded toward zero, also when that power of ten is negative.
C2_DivideTruncatedQuotient ==
  (call.op = "divide" /\ Before(call.y).n_value # 0) =>
    LET n1 == Before(call.x)
        n2 == Before(call.y)
        step == n2.n_scale + call.scale - n1.n_scale
        quot == Now(call.o)
    IN  /\ rv = 0
        /\ quot.n_scale = call.scale
        /\ IF step >= 0
           THEN IsTruncated(quot.n_value, n1.n_value * 10^step, n2.n_value)
           ELSE IsTruncated(quot.n_value, n1.n_value, n2.n_value * 10^(-step))

\* a division with a negative step that drops non-zero digits of the
\* dividend and has a negative quotient
C2_Witness ==
  /\ call.op = "divide"
  /\ rv = 0
  /\ Before("b").n_scale + call.scale < Before("a").n_scale
  /\ Before("a").n_value % 10 # 0
  /\ Now("r").n_value < 0

(***************************************************************************)
(* C3: bc_divmod.                                                          *)
(***************************************************************************)
\* C3: for n2 # 0, bc_divmod installs the quotient bc_divide installs and a
\* remainder of scale rscale = max(n1.scale, n2.scale + scale) with
\* n1 = q * n2 + r exactly.
C3_DivmodIdentity ==
  (call.op = "divmod" /\ Before(call.y).n_value # 0) =>
    LET n1 == Before(call.x)
        n2 == Before(call.y)
        q == Now(call.q)
        r == Now(call.o)
        rscale == MAX(n1.n_scale, n2.n_scale + call.scale)
        d == bc_divide(HeapBefore, pre.slot[call.x], pre.slot[call.y], "r",
                       call.scale)
    IN  /\ rv = 0
        /\ q.n_value = d.cell[d.slot["r"]].n_value
        /\ q.n_scale = d.cell[d.slot["r"]].n_scale
        /\ q.n_scale = call.scale
        /\ r.n_scale = rscale
        /\ n1.n_value * 10^(rscale - n1.n_scale)
             = q.n_value * n2.n_value * 10^(rscale - q.n_scale - n2.n_scale)
               + r.n_value

\* a divmod with quotient and remainder both non-zero, a negative dividend
\* and a dividend of larger scale than the divisor's plus `scale`
C3_Witness ==
  /\ call.op = "divmod"
  /\ rv = 0
  /\ Now("q").n_value # 0
  /\ Now("r").n_value # 0
  /\ Before("a").n_value < 0
  /\ Before("a").n_scale > Before("b").n_scale + call.scale

(***************************************************************************)
(* C4: bc_multiply.                                                        *)
(***************************************************************************)
\* C4: bc_multiply installs a number of scale
\* min(n1.scale + n2.scale, max(scale, n1.scale, n2.scale)) whose value is
\* the product rounded toward zero to that scale: the exact product when
\* scale >= n1.scale + n2.scale.
C4_MultiplyTruncatedProduct ==
  call.op = "multiply" =>
    LET n1 == Before(call.x)
        n2 == Before(call.y)
        full == n1.n_scale + n2.n_scale
        rs == MIN(full, MAX(call.scale, MAX(n1.n_scale, n2.n_scale)))
        prod == Now(call.o)
    IN  /\ prod.n_scale = rs
        /\ IsTruncated(prod.n_value, n1.n_value * n2.n_value, 10^(full - rs))
        /\ call.scale >= full =>
             prod.n_scale = full /\ prod.n_value = n1.n_value * n2.n_value

\* a negative product that loses non-zero digits
C4_Witness ==
  /\ call.op = "multiply"
  /\ Before("a").n_scale + Before("b").n_scale > Now("r").n_scale
  /\ (Before("a").n_value * Before("b").n_value) % 10 # 0
  /\ Before("a").n_value * Before("b").n_value < 0
  /\ Now("r").n_value # 0

(***************************************************************************)
(* C5: bc_compare and the sign of bc_sub.                                  *)
(***************************************************************************)
\* the sign of n1 - n2 as rationals
SignOfDifference(n1, n2) ==
  LET m == MAX(n1.n_scale, n2.n_scale)
  IN  Sgn(n1.n_value * 10^(m - n1.n_scale) - n2.n_value * 10^(m - n2.n_scale))

\* C5: bc_compare (n1, n2) is the sign of n1 - n2: it is -1, 0, +1 exactly
\* when the number bc_sub (n1, n2) installs is negative, zero, positive, for
\* every scale_min; it is -bc_compare (n2, n1); and numbers that differ only
\* in trailing fractional zeros compare equal.
C5_CompareAgreesWithSub ==
  /\ call.op = "sub" =>
       LET c == bc_compare(HeapBefore, pre.slot[call.x], pre.slot[call.y])
       IN  /\ c = SignOfDifference(Before(call.x), Before(call.y))
           /\ (c = -1) = bc_is_neg(Heap, slot[call.o])
           /\ (c = 0) = bc_is_zero(Heap, slot[call.o])
           /\ (c = 1) = (Now(call.o).n_value > 0)
  /\ call.op = "compare" =>
       /\ rv = SignOfDifference(Before(call.x), Before(call.y))
       /\ rv = -bc_compare(HeapBefore, pre.slot[call.y], pre.slot[call.x])
       /\ (Before(call.x).n_value * 10^Before(call.y).n_scale
             = Before(call.y).n_value * 10^Before(call.x).n_scale) => rv = 0

\* two negative numbers of different scales that differ only in trailing
\* zeros were compared
C5_Witness ==
  /\ call.op = "compare"
  /\ rv = 0
  /\ Before("a").n_scale # Before("b").n_scale
  /\ Before("a").n_value < 0

(***************************************************************************)
(* C6: the text of bc_num2str.                                             *)
(***************************************************************************)
\* a text split into its sign, its leading digits and what follows them
TextParts(t) ==
  LET neg == Deref(t, 1) = "-"
      body == IF neg THEN Tail(t) ELSE t
      int == LeadingDigits(body)
  IN  [neg |-> neg, int |-> int,
       rest |-> SubSeq(body, Len(int) + 1, Len(body))]

\* rest is nothing for scale 0, else a point and exactly scale digits
IsFraction(rest, scale) ==
  IF scale = 0 THEN rest = <<>>
  ELSE /\ Len(rest) = scale + 1
       /\ rest[1] = "."
       /\ \A i \in 2..Len(rest) : isdigit(rest[i])

\* C6 as stated: the text is '-' if n is negative, at least one integer
\* digit, and for n.scale > 0 a '.' and exactly n.scale digits.
C6_TextHasIntegerDigit ==
  call.op = "num2str" =>
    LET t == TextParts(text)
        n == Now(call.x)
    IN  /\ t.neg = (n.n_value < 0)
        /\ Len(t.int) >= 1
        /\ IsFraction(t.rest, n.n_scale)

\* C6 as amended: the text is '-' if n is negative, then the integer digits
\* of |n| without leading zeros -- none at all when |n| < 1 and n.scale > 0,
\* the single digit 0 for zero at scale 0 -- and for n.scale > 0 a '.' and
\* exactly n.scale digits, the fraction of |n|.
C6_TextOfNumber ==
  call.op = "num2str" =>
    LET t == TextParts(text)
        n == Now(call.x)
        unit == 10^n.n_scale
    IN  /\ t.neg = (n.n_value < 0)
        /\ IsFraction(t.rest, n.n_scale)
        /\ (t.int = <<>>) = (n.n_scale > 0 /\ Abs(n.n_value) < unit)
        /\ t.int # <<>> =>
             /\ DecValue(t.int) = Abs(n.n_value) \div unit
             /\ t.int[1] = "0" => t.int = <<"0">> /\ n.n_value = 0
        /\ n.n_scale > 0 =>
             DecValue(Tail(t.rest)) = Abs(n.n_value) % unit

\* the text of -0.05, a number of magnitude below 1
C6_Witness ==
  /\ call.op = "num2str"
  /\ Now("a").n_value = -5
  /\ Now("a").n_scale = 2
  /\ text = <<"-", ".", "0", "5">>

(***************************************************************************)
(* C7: the text read back.                                                 *)
(***************************************************************************)
\* C7: bc_str2num of the text bc_num2str wrote for n, with the scale
\* argument n.scale, installs a number of the same big integer and the same
\* scale as n.
C7_RoundTrip ==
  (call.op = "str2num" /\ call.scale = Now(call.x).n_scale) =>
    /\ Now(call.o).n_value = Now(call.x).n_value
    /\ Now(call.o).n_scale = Now(call.x).n_scale

\* a negative number of magnitude below 0.1 was written and read back
C7_Witness ==
  /\ call.op = "str2num"
  /\ call.scale = 2
  /\ Now("a").n_scale = 2
  /\ Now("a").n_value = -7
  /\ Now("r").n_value = -7
  /\ text = <<"-", ".", "0", "7">>

(***************************************************************************)
(* C8: bc_raise and its result variable.                                   *)
(***************************************************************************)
\* C8 as stated: after bc_raise the number the result variable held has been
\* released and the variable holds the power; for a negative exponent that
\* is ONE divided, at scale `scale`, by base^|e| brought to scale `scale`.
C8_RaiseReplacesResult ==
  call.op = "raise" =>
    LET old == pre.slot[call.o]
        e == bc_num2long(HeapBefore, pre.slot[call.y])
        base == Before(call.x)
        power == mpz_pow_ui(base.n_value, Abs(e))
        shift == base.n_scale * Abs(e) - call.scale
        temp == IF shift > 0 THEN mpz_tdiv_q(power, 10^shift)
                ELSE power * 10^(-shift)
    IN  /\ old # NULL => cell[old].n_refs = pre.cell[old].n_refs - 1
        /\ slot[call.o] # NULL
        /\ slot[call.o] # old
        /\ (e < 0 /\ temp # 0) =>
             /\ Now(call.o).n_scale = call.scale
             /\ IsTruncated(Now(call.o).n_value, 10^(2 * call.scale), temp)

(***************************************************************************)
(* C9, C10: bc_sqrt.                                                       *)
(***************************************************************************)
\* C9: for n >= 0, bc_sqrt returns 1 and installs r with r * r <= n and
\* (r + 10^-scale)^2 > n, as rationals.
C9_SqrtBracketsRoot ==
  (call.op = "sqrt" /\ Before(call.x).n_value >= 0) =>
    LET n == Before(call.x)
        r == Now(call.o)
        m == MAX(r.n_scale, call.scale)
        \* r + 10^-scale = t / 10^m
        t == r.n_value * 10^(m - r.n_scale) + 10^(m - call.scale)
    IN  /\ rv = 1
        /\ r.n_value >= 0
        /\ LeqScaled(r.n_value * r.n_value, n.n_scale, n.n_value, 2 * r.n_scale)
        /\ GtScaled(t * t, n.n_scale, n.n_value, 2 * m)

\* the root of a number that is no square, of a scale above `scale`
C9_Witness ==
  /\ call.op = "sqrt"
  /\ rv = 1
  /\ Before("a").n_scale > call.scale
  /\ Now("a").n_value > 1
  /\ Now("a").n_value * Now("a").n_value
       < Before("a").n_value * 10^(2 * Now("a").n_scale - Before("a").n_scale)

\* C10 as stated: after a successful bc_sqrt the stored scale of the number
\* in the variable is max(scale, v.scale).
C10_SqrtScale ==
  (call.op = "sqrt" /\ rv = 1) =>
    Now(call.o).n_scale = MAX(call.scale, Before(call.x).n_scale)

(***************************************************************************)
(* SpecPow: one call of bc_raise or bc_raisemod on a base a, an exponent b *)
(* and a modulus q, each an integer or an integer and a half carried at    *)
(* some scale; r is fresh.                                                 *)
(***************************************************************************)
PowScales == 0..MaxPowScale

\* i and i plus a half, written with s fraction digits
Fractions(i, s) ==
  IF s = 0 THEN {i}
  ELSE {i * 10^s, i * 10^s + (IF i < 0 THEN -5 ELSE 5) * 10^(s - 1)}

PowNumbers(maxint) ==
  UNION {{[n_value |-> v, n_scale |-> s] : v \in Fractions(i, s)} :
         i \in (-maxint)..maxint, s \in PowScales}

\* v^e is at most lim
RECURSIVE PowFits(_, _, _)
PowFits(v, e, lim) ==
  IF e = 0 THEN lim >= 1
  ELSE IF v = 0 THEN TRUE
  ELSE PowFits(v, e - 1, lim \div v)

\* the integer part of a number
IntPart(n) == mpz_tdiv_q(n.n_value, 10^n.n_scale)

InitPow ==
  \E na \in PowNumbers(MaxBase), nb \in PowNumbers(MaxExp),
     nm \in PowNumbers(MaxMod) :
    /\ PowFits(mpz_abs(na.n_value), mpz_abs(IntPart(nb)), LONG_MAX)
    /\ Start(StoreNumber(StoreNumber(StoreNumber(bc_init_numbers,
                                                  "a", na), "b", nb), "q", nm))

NextPow ==
  \/ \E s \in PowScales : Raisemod("a", "b", "q", "r", s)
  \/ \E s \in PowScales : Raise("a", "b", "r", s)

SpecPow == InitPow /\ [][NextPow]_vars

\* A * 10^-e = C * 10^-f
EqScaled(A, e, C, f) == A * 10^(f - MIN(e, f)) = C * 10^(e - MIN(e, f))

(***************************************************************************)
(* C11: bc_raisemod against bc_raise followed by bc_modulo.                *)
(***************************************************************************)
\* the number bc_modulo at the call's scale leaves for the power bc_raise
\* computes from the call's base and exponent
RaiseThenModulo ==
  LET p == bc_raise(HeapBefore, pre.slot[call.x], pre.slot[call.y], "r",
                    call.scale)
      m == bc_modulo(p, p.slot["r"], p.slot[call.z], "r", call.scale)
  IN  m.cell[m.slot["r"]]

IntegerRaisemod ==
  /\ call.op = "raisemod"
  /\ Before(call.x).n_scale = 0
  /\ Before(call.y).n_scale = 0 /\ Before(call.y).n_value >= 0
  /\ Before(call.z).n_scale = 0 /\ Before(call.z).n_value > 0

\* C11: for an integer base, an integer exponent e >= 0, an integer modulus
\* m > 0 and every scale, the value bc_raisemod installs is the value
\* bc_modulo at that scale gives for the result of bc_raise.
C11_RaisemodIsRaiseModulo ==
  IntegerRaisemod =>
    /\ rv = 0
    /\ EqScaled(Now(call.o).n_value, Now(call.o).n_scale,
                RaiseThenModulo.n_value, RaiseThenModulo.n_scale)

(***************************************************************************)
(* C12: operands that must be integers and carry a scale.                  *)
(***************************************************************************)
\* the operands of the call that must be integers
IntegerOperands ==
  IF call.op = "raise" THEN {call.y}
  ELSE IF call.op = "raisemod" THEN {call.x, call.y, call.z}
  ELSE {}

\* the warning the code gives for the operand v
WarningFor(v) ==
  IF v = call.y THEN "non-zero scale in exponent"
  ELSE IF v = call.x THEN "non-zero scale in base"
  ELSE "non-zero scale in modulus"

Warned(v) == \E i \in 1..Len(warned) : warned[i] = WarningFor(v)

\* the same call made with the operand v first truncated to scale 0
TruncatedCall(v) ==
  LET h == [HeapBefore EXCEPT
              !.cell[pre.slot[v]].n_value = IntPart(Before(v)),
              !.cell[pre.slot[v]].n_scale = 0]
  IN  IF call.op = "raise"
      THEN bc_raise(h, h.slot[call.x], h.slot[call.y], call.o, call.scale)
      ELSE bc_raisemod(h, h.slot[call.x], h.slot[call.y], h.slot[call.z],
                       call.o, call.scale)

\* the call has returned the status and installed the number that h holds
SameResult(h) ==
  /\ rv = h.rv
  /\ (slot[call.o] = NULL) = (h.slot[call.o] = NULL)
  /\ slot[call.o] # NULL =>
       /\ Now(call.o).n_value = h.cell[h.slot[call.o]].n_value
       /\ Now(call.o).n_scale = h.cell[h.slot[call.o]].n_scale

\* C12 as claimed: when the exponent of bc_raise, or the base, the exponent
\* or the modulus of bc_raisemod, carries a non-zero scale, the warning is
\* given and the result is the result of the same call with that operand
\* truncated toward zero to scale 0.
C12_IntegerPartOfEveryOperand ==
  \A v \in IntegerOperands :
    Before(v).n_scale # 0 => Warned(v) /\ SameResult(TruncatedCall(v))

\* bc_raisemod passes its initial checks
RaisemodProceeds ==
  Before(call.z).n_value # 0 /\ Before(call.y).n_value >= 0

\* C12 as amended: when the exponent of bc_raise, or the base, the exponent
\* or the modulus of a bc_raisemod call that passes its initial checks,
\* carries a non-zero scale, the warning is given; for the exponent the
\* result is the result of the same call with the exponent truncated toward
\* zero to scale 0.  (A base or a modulus with a scale is used as it is.)
C12_IntegerPartOfExponent ==
  \A v \in IntegerOperands :
    (Before(v).n_scale # 0 /\ (call.op = "raisemod" => RaisemodProceeds)) =>
      /\ Warned(v)
      /\ v = call.y => SameResult(TruncatedCall(v))

\* bc_raisemod has used the integer part 3 of the exponent 3.5 on a base
\* it does not map to 0 or 1
C12_Witness ==
  /\ call.op = "raisemod"
  /\ Before(call.y).n_scale # 0
  /\ IntPart(Before(call.y)) = 3
  /\ Before(call.y).n_value # 3 * 10^Before(call.y).n_scale
  /\ Warned(call.y)
  /\ rv = 0
  /\ Now(call.o).n_value \notin {0, 1}

(***************************************************************************)
(* SpecOut: one call of bc_out_num on a, in the bases from 2 on and in     *)
(* base 256; the host's out_char collects the characters in text.          *)
(***************************************************************************)
OutBases == (2..MaxOutBase) \cup {256}

InitOut ==
  \E na \in Numbers(MaxOut) : Start(StoreNumber(bc_init_numbers, "a", na))

NextOut ==
  \E o_base \in OutBases, leading_zero \in BOOLEAN :
    OutNum("a", o_base, leading_zero)

SpecOut == InitOut /\ [][NextOut]_vars

\* the digits of n >= 0 in the base, most significant first, none for 0
RECURSIVE BaseDigits(_, _)
BaseDigits(n, base) ==
  IF n = 0 THEN <<>>
  ELSE Append(BaseDigits(n \div base, base), n % base)

\* how many digits of the fraction are written: the least k for which
\* base^k has more decimal digits than the scale
RECURSIVE FractionLength(_, _, _)
FractionLength(t, base, scale) ==
  IF Len(DecDigits(t)) > scale THEN 0
  ELSE 1 + FractionLength(t * base, base, scale)

\* the first k digits in the base of the fraction f / 10^scale
RECURSIVE FractionDigits(_, _, _, _)
FractionDigits(f, scale, base, k) ==
  IF k = 0 THEN <<>>
  ELSE <<(f * base) \div 10^scale>>
       \o FractionDigits((f * base) % 10^scale, scale, base, k - 1)

\* a digit in decimal, padded with zeros to the width of base - 1
Padded(d, base) ==
  LET w == Len(DecDigits(base - 1))
      ds == DecDigits(d)
  IN  [i \in 1..(w - Len(ds)) |-> "0"] \o ds

\* the digits one after the other, a space before each but, if bare, the
\* first
RECURSIVE Spaced(_, _, _)
Spaced(ds, base, bare) ==
  IF ds = <<>> THEN <<>>
  ELSE (IF bare THEN <<>> ELSE <<" ">>) \o Padded(Head(ds), base)
       \o Spaced(Tail(ds), base, FALSE)

\* the text of the number n in a base above 16; bare: no space before the
\* first digit of the integer part
WideText(n, base, bare) ==
  LET v == Abs(n.n_value)
      p == 10^n.n_scale
  IN  (IF n.n_value < 0 THEN <<"-">> ELSE <<>>)
      \o Spaced(BaseDigits(v \div p, base), base, bare)
      \o (IF n.n_scale > 0
          THEN <<".">> \o Spaced(FractionDigits(v % p, n.n_scale, base,
                                   FractionLength(1, base, n.n_scale)),
                                 base, TRUE)
          ELSE <<>>)

(***************************************************************************)
(* C14: the digits written in a base above 16.                             *)
(***************************************************************************)
\* C14 as claimed: in a base above 16 every digit is written in decimal,
\* padded with zeros to the width of base - 1, with one space before every
\* digit except the first digit of the integer part and the first digit of
\* the fraction.
C14_SpaceBetweenDigits ==
  (call.op = "out_num" /\ call.base > 16) =>
    text = WideText(Before(call.x), call.base, TRUE)

\* C14 as amended: for a number other than zero, in a base above 16 every
\* digit is written in decimal, padded with zeros to the width of
\* base - 1, with one space before every digit of the integer part, the
\* first included, and before every digit of the fraction except the first.
C14_SpaceBeforeIntegerDigits ==
  (call.op = "out_num" /\ call.base > 16 /\ Before(call.x).n_value # 0) =>
    text = WideText(Before(call.x), call.base, FALSE)

\* a negative number with a digit before the point and two after it has
\* been written in base 17
C14_Witness ==
  /\ call.op = "out_num"
  /\ call.base = 17
  /\ Before(call.x).n_scale = 2
  /\ Before(call.x).n_value <= -100
  /\ Len(text) = 10

(***************************************************************************)
(* C15: 0.5 in base 2.                                                     *)
(***************************************************************************)
HalfInBinary ==
  /\ call.op = "out_num"
  /\ call.base = 2
  /\ Before(call.x).n_value = 5
  /\ Before(call.x).n_scale = 1

\* C15 as claimed: 0.5 carried at scale 1 is written in base 2 as ".1".
C15_HalfIsPointOne == HalfInBinary => text = <<".", "1">>

\* C15 as amended: 0.5 carried at scale 1 is written in base 2 as ".1000":
\* no integer digit, and a digit of the fraction for each power of 2 that
\* has one decimal digit (1, 2, 4 and 8).
C15_HalfIsPointOneZeroZeroZero ==
  HalfInBinary => text = <<".", "1", "0", "0", "0">>

C15_Witness == HalfInBinary /\ Len(text) = 5

(***************************************************************************)
(* SpecShare: one call of any routine, from every prior content of r and   *)
(* of the free list, the result variable being r or an operand; then the   *)
(* program releases its variables.                                         *)
(***************************************************************************)
ShareScales == 0..MaxShareScale

InitShare ==
  \E na, nb \in [n_value : (-MaxShare)..MaxShare, n_scale : ShareScales],
     prior \in Priors, released \in BOOLEAN :
    Start(Setup(na, nb, prior, released))

NextShare ==
  \/ \E o \in {"r", "a"}, s \in ShareScales : Add("a", "b", o, s)
  \/ \E o \in {"r", "b"}, s \in ShareScales : Sub("a", "b", o, s)
  \/ \E o \in {"r", "a"}, s \in ShareScales : Multiply("a", "b", o, s)
  \/ \E o \in {"r", "b"}, s \in ShareScales : Divide("a", "b", o, s)
  \/ \E q \in {"a", "q"}, s \in ShareScales : Divmod("a", "b", q, "r", s)
  \/ \E o \in {"r", "a"}, s \in ShareScales : Modulo("a", "b", o, s)
  \/ \E o \in {"r", "a"}, s \in ShareScales : Raise("a", "b", o, s)
  \/ \E o \in {"r", "b"}, s \in ShareScales : Raisemod("a", "b", "a", o, s)
  \/ \E o \in {"r", "a"}, s \in ShareScales : slot[o] # NULL /\ Sqrt(o, s)
  \/ \E o \in {"r", "a"} : Neg(o)
  \/ \E o \in {"r", "a"}, v \in {-1, 0} : Int2num(o, v)
  \/ \E o \in {"r", "a"}, str \in {<<>>, <<"-", "1", ".", "5">>},
        s \in ShareScales : Parse(o, str, s)
  \/ \E s \in ShareScales : NewNum("q", s)
  \/ \E x \in {"a", "r"} : slot[x] # NULL /\ CopyNum(x, "q")
  \/ InitNum("q")
  \/ \E o \in {"r", "a"} : FreeNum(o)
  \/ \E o_base \in {2, 10, 17} : OutNum("a", o_base, FALSE)
  \/ ReleaseAll

SpecShare == InitShare /\ [][NextShare]_vars

\* the variables that hold the cell p
Holders(p) == {v \in Globals \cup Caller : slot[v] = p}

\* the cells of the free list, from its head p
RECURSIVE FreeCells(_, _)
FreeCells(p, fuel) ==
  IF p = NULL \/ fuel = 0 THEN <<>>
  ELSE <<p>> \o FreeCells(cell[p].n_next, fuel - 1)

(***************************************************************************)
(* C13: sharing is transparent.                                            *)
(***************************************************************************)
\* the variables the call writes
Written ==
  IF call.op = "divmod" THEN {call.o, call.q}
  ELSE IF call.op = "release" THEN Caller
  ELSE {call.o}

\* C13: a call changes the value and the scale seen through no variable
\* but those it writes; _zero_, _one_ and _two_ hold 0, 1 and 2 at scale 0;
\* a cell that had more than one reference keeps its value and its scale
\* (only a cell with one reference is changed in place).
C13_SharingIsTransparent ==
  call.op # "none" =>
    /\ \A v \in (Globals \cup Caller) \ Written :
         pre.slot[v] # NULL =>
           /\ slot[v] # NULL
           /\ Now(v).n_value = Before(v).n_value
           /\ Now(v).n_scale = Before(v).n_scale
    /\ Now("zero").n_value = 0 /\ Now("zero").n_scale = 0
    /\ Now("one").n_value = 1 /\ Now("one").n_scale = 0
    /\ Now("two").n_value = 2 /\ Now("two").n_scale = 0
    /\ \A p \in Cells :
         pre.cell[p].n_refs > 1 =>
           /\ cell[p].n_value = pre.cell[p].n_value
           /\ cell[p].n_scale = pre.cell[p].n_scale

\* bc_neg of a variable that shares a non-zero number with another has left
\* the other as it was
C13_Witness ==
  /\ call.op = "neg"
  /\ Before(call.o).n_refs > 1
  /\ Before(call.o).n_value # 0
  /\ pre.slot["a"] = pre.slot["r"]
  /\ Now(call.o).n_value = -Before(call.o).n_value
  /\ slot["a"] # slot["r"]

(***************************************************************************)
(* C16: the reference counts and the free list.                            *)
(***************************************************************************)
FreeList == FreeCells(bc_Free_list, NCells + 1)

OnFreeList(p) == \E i \in 1..Len(FreeList) : FreeList[i] = p

\* C16: after a call every cell's n_refs is the number of variables that
\* hold it, a cell is on the free list exactly when it has been allocated
\* and its n_refs is 0, no cell of the free list is held by a variable or
\* is on the list twice, and a cell bc_new_num takes from the free list has
\* value 0, the scale asked for and n_refs 1.
C16_ReferenceCounts ==
  call.op \notin {"none", "out_num"} =>
    /\ \A p \in Cells : cell[p].n_refs = Cardinality(Holders(p))
    /\ \A p \in Cells : OnFreeList(p) <=> (p <= nalloc /\ cell[p].n_refs = 0)
    /\ \A p \in Cells : OnFreeList(p) => Holders(p) = {}
    /\ Len(FreeList) <= NCells
    /\ \A i, j \in 1..Len(FreeList) : FreeList[i] = FreeList[j] => i = j
    /\ (call.op = "new_num" /\ pre.free # NULL) =>
         /\ slot[call.o] = pre.free
         /\ Now(call.o).n_value = 0
         /\ Now(call.o).n_scale = call.scale
         /\ Now(call.o).n_refs = 1

(***************************************************************************)
(* C17: no operation leaks storage.                                        *)
(***************************************************************************)
Operations == {"add", "sub", "multiply", "divide", "divmod", "raise",
               "raisemod", "sqrt", "out_num"}

\* C17: when an arithmetic or output operation returns, a cell that no
\* variable holds has no reference left and a cell that is held has as many
\* references as holders; once the program has released its variables only
\* _zero_, _one_ and _two_ have references, one each.
C17_NoLeak ==
  /\ call.op \in Operations =>
       \A p \in Cells : cell[p].n_refs <= Cardinality(Holders(p))
  /\ call.op = "release" =>
       \A p \in Cells :
         cell[p].n_refs = (IF p \in {slot[g] : g \in Globals} THEN 1 ELSE 0)

(***************************************************************************)
(* SpecLoop: bc_raisemod on an integer base a, an exponent b that is an    *)
(* integer or an integer and a half, and an integer modulus q, followed    *)
(* iteration by iteration; a call that has started runs on.                *)
(***************************************************************************)
InitLoop ==
  \E na \in [n_value : (-MaxBase)..MaxBase, n_scale : {0}],
     nb \in PowNumbers(MaxExp),
     nm \in [n_value : (-MaxMod)..MaxMod, n_scale : {0}] :
    Start(StoreNumber(StoreNumber(StoreNumber(bc_init_numbers,
                                              "a", na), "b", nb), "q", nm))

NextLoop ==
  \/ \E s \in PowScales : RaisemodEnter("a", "b", "q", "r", s)
  \/ RaisemodIterate
  \/ RaisemodLeave

SpecLoop ==
  /\ InitLoop
  /\ [][NextLoop]_vars
  /\ WF_vars(RaisemodIterate)
  /\ WF_vars(RaisemodLeave)

(***************************************************************************)
(* C18: bc_raisemod terminates.                                            *)
(***************************************************************************)
\* the number of bits of n >= 0
RECURSIVE BitLength(_)
BitLength(n) == IF n = 0 THEN 0 ELSE 1 + BitLength(n \div 2)

\* the local exponent of bc_raisemod
LoopExponent == cell[slot["rm_exponent"]]

\* C18: for a non-zero modulus and a non-negative exponent, with or without
\* a scale, the loop of bc_raisemod starts from the integer part of the
\* exponent, every iteration replaces the exponent by its truncated half,
\* which is smaller, and after as many iterations as the integer part has
\* bits the loop is left, the result installed and 0 returned.
C18_RaisemodTerminates ==
  /\ [](pc = "loop" =>
          /\ LoopExponent.n_scale = 0
          /\ LoopExponent.n_value >= 0
          /\ iter = 0 => LoopExponent.n_value = IntPart(Before(call.y)))
  /\ [][(pc = "loop" /\ pc' = "loop") =>
          /\ LoopExponent'.n_value = LoopExponent.n_value \div 2
          /\ LoopExponent'.n_value < LoopExponent.n_value]_vars
  /\ []((pc = "done" /\ rv = 0) =>
          /\ iter = BitLength(IntPart(Before(call.y)))
          /\ slot[call.o] # NULL)
  /\ (pc = "loop") ~> (pc = "done" /\ rv = 0)

\* the loop has run twice for the exponent 3.5 and the call has returned 0
C18_Witness ==
  /\ pc = "done"
  /\ rv = 0
  /\ Before(call.y).n_scale # 0
  /\ IntPart(Before(call.y)) = 3
  /\ Before(call.y).n_value # 3 * 10^Before(call.y).n_scale
  /\ iter = 2
  /\ slot[call.o] # NULL

====
